---- MODULE Spec2Model ----
(***************************************************************************)
(* A model of the native (Cython) utility layer of pysha-sdk:              *)
(*   - strings/_native.pyx : is_valid_israeli_id, is_hex, to_hex, from_hex *)
(*   - crypto/_native.pyx  : uuidv7, uuidv7_to_datetime, to_stable_uuid    *)
(*   - objects/_native.pyx : change_keys_case, is_iterable_except_str_like,*)
(*                           recursive_sort_keys                           *)
(*                                                                         *)
(* Every operation is a synchronous call.  The state is the call in        *)
(* progress: which operation was called, with which arguments, what it     *)
(* returned (or raised), and what the caller's argument object looks like  *)
(* after the call (change_keys_case writes into its argument).             *)
(*                                                                         *)
(* A Python str is a sequence of code points, a bytes object a sequence of *)
(* numbers in 0..255.                                                      *)
(***************************************************************************)
EXTENDS Integers, Sequences, FiniteSets, TLC

VARIABLES pc, op, arg, ret, arg_after

vars == <<pc, op, arg, ret, arg_after>>

(***************************************************************************)
(* Bounds of the model.                                                    *)
(***************************************************************************)
MaxIdLen == 3
MaxHexLen == 4
MaxTextLen == 2

(***************************************************************************)
(* Results of a call.                                                      *)
(***************************************************************************)
RetBool(b) == [kind |-> "bool", val |-> b]
RetStr(s) == [kind |-> "str", val |-> s]
RetNone == [kind |-> "none", val |-> "None"]
RetObj(v) == [kind |-> "obj", val |-> v]
Raise(e) == [kind |-> "raise", val |-> e]

NoCall == [none |-> TRUE]

(***************************************************************************)
(* Sequences over an alphabet, of length at most n.                        *)
(***************************************************************************)
SeqsUpTo(S, n) == UNION {[1..k -> S] : k \in 0..n}

Repeat(c, n) == [i \in 1..n |-> c]

(***************************************************************************)
(* Bit operations of C on non-negative integers.                           *)
(***************************************************************************)
RECURSIVE BitAnd(_, _)
BitAnd(a, b) ==
    IF a = 0 \/ b = 0 THEN 0
    ELSE ((a % 2) * (b % 2)) + 2 * BitAnd(a \div 2, b \div 2)

RECURSIVE BitOr(_, _)
BitOr(a, b) ==
    IF a = 0 THEN b
    ELSE IF b = 0 THEN a
    ELSE (IF a % 2 = 1 \/ b % 2 = 1 THEN 1 ELSE 0) + 2 * BitOr(a \div 2, b \div 2)

U8(x) == x % 256

(***************************************************************************)
(* strings/_native.pyx                                                     *)
(***************************************************************************)

\* HEX_CHARS = b"0123456789abcdef"
HEX_CHARS == <<48, 49, 50, 51, 52, 53, 54, 55, 56, 57, 97, 98, 99, 100, 101, 102>>

\* _is_hex_char(c)
_is_hex_char(c) ==
    (c >= 48 /\ c <= 57) \/ (c >= 97 /\ c <= 102) \/ (c >= 65 /\ c <= 70)

\* _hex_char_to_nibble(c): a character outside the three ranges yields 0.
HexCharToNibbleNoUpper(c) ==
    IF c >= 48 /\ c <= 57 THEN U8(c - 48)
    ELSE IF c >= 97 /\ c <= 102 THEN U8(c - 97 + 10)
    ELSE 0
_hex_char_to_nibble(c) ==
    IF c >= 48 /\ c <= 57 THEN U8(c - 48)
    ELSE IF c >= 97 /\ c <= 102 THEN U8(c - 97 + 10)
    ELSE IF c >= 65 /\ c <= 70 THEN U8(c - 65 + 10)
    ELSE 0

\* _bytes_to_hex(data, out, length): out[2i], out[2i+1] (0-based) are the
\* high and the low nibble of data[i].
_bytes_to_hex(data) ==
    [j \in 1..(2 * Len(data)) |->
        IF j % 2 = 1
        THEN HEX_CHARS[(data[(j + 1) \div 2] \div 16) + 1]
        ELSE HEX_CHARS[BitAnd(data[j \div 2], 15) + 1]]

\* _hex_to_bytes(hex_str, out, hex_len): byte_count = hex_len // 2.
_hex_to_bytes(hex_str) ==
    [i \in 1..(Len(hex_str) \div 2) |->
        U8(BitOr(_hex_char_to_nibble(hex_str[2 * i - 1]) * 16,
                 _hex_char_to_nibble(hex_str[2 * i])))]

\* str.encode('ascii'): every code point must be below 128.
EncodeAscii(text) ==
    IF \E i \in 1..Len(text) : text[i] >= 128
    THEN Raise("UnicodeEncodeError")
    ELSE [kind |-> "bytes", val |-> text]

\* str.encode('utf-8') of one code point; surrogates cannot be encoded.
IsSurrogate(cp) == cp >= 55296 /\ cp <= 57343

Utf8OfCodePoint(cp) ==
    IF cp < 128 THEN <<cp>>
    ELSE IF cp < 2048 THEN <<192 + (cp \div 64), 128 + (cp % 64)>>
    ELSE IF cp < 65536
         THEN <<224 + (cp \div 4096), 128 + ((cp \div 64) % 64), 128 + (cp % 64)>>
    ELSE <<240 + (cp \div 262144), 128 + ((cp \div 4096) % 64),
           128 + ((cp \div 64) % 64), 128 + (cp % 64)>>

RECURSIVE Utf8Bytes(_)
Utf8Bytes(text) ==
    IF text = <<>> THEN <<>>
    ELSE Utf8OfCodePoint(Head(text)) \o Utf8Bytes(Tail(text))

EncodeUtf8(text) ==
    IF \E i \in 1..Len(text) : IsSurrogate(text[i])
    THEN Raise("UnicodeEncodeError")
    ELSE [kind |-> "bytes", val |-> Utf8Bytes(text)]

\* bytes.decode('utf-8'), strict: the well-formed byte sequences of Unicode.
IsCont(b) == b >= 128 /\ b <= 191

\* The length of the well-formed sequence that starts b, 0 if there is none.
Utf8SeqLen(b) ==
    LET n == Len(b) IN
    IF n = 0 THEN 0
    ELSE IF b[1] < 128 THEN 1
    ELSE IF b[1] >= 194 /\ b[1] <= 223
         THEN IF n >= 2 /\ IsCont(b[2]) THEN 2 ELSE 0
    ELSE IF b[1] >= 224 /\ b[1] <= 239
         THEN IF /\ n >= 3
                 /\ IsCont(b[2])
                 /\ IsCont(b[3])
                 /\ (b[1] = 224 => b[2] >= 160)
                 /\ (b[1] = 237 => b[2] <= 159)
              THEN 3 ELSE 0
    ELSE IF b[1] >= 240 /\ b[1] <= 244
         THEN IF /\ n >= 4
                 /\ IsCont(b[2])
                 /\ IsCont(b[3])
                 /\ IsCont(b[4])
                 /\ (b[1] = 240 => b[2] >= 144)
                 /\ (b[1] = 244 => b[2] <= 143)
              THEN 4 ELSE 0
    ELSE 0

Utf8CodePoint(b, k) ==
    IF k = 1 THEN b[1]
    ELSE IF k = 2 THEN (b[1] - 192) * 64 + (b[2] - 128)
    ELSE IF k = 3 THEN (b[1] - 224) * 4096 + (b[2] - 128) * 64 + (b[3] - 128)
    ELSE (b[1] - 240) * 262144 + (b[2] - 128) * 4096 + (b[3] - 128) * 64
         + (b[4] - 128)

RECURSIVE Utf8WellFormed(_)
Utf8WellFormed(b) ==
    IF b = <<>> THEN TRUE
    ELSE LET k == Utf8SeqLen(b) IN
         k > 0 /\ Utf8WellFormed(SubSeq(b, k + 1, Len(b)))

RECURSIVE Utf8Text(_)
Utf8Text(b) ==
    IF b = <<>> THEN <<>>
    ELSE LET k == Utf8SeqLen(b) IN
         <<Utf8CodePoint(b, k)>> \o Utf8Text(SubSeq(b, k + 1, Len(b)))

DecodeUtf8(b) ==
    IF Utf8WellFormed(b) THEN RetStr(Utf8Text(b)) ELSE Raise("UnicodeDecodeError")

\* str.isdigit() of one character: the Unicode decimal digits and the
\* characters of Numeric_Type=Digit.  Of these the model knows the ASCII
\* digits, the Arabic-Indic digits U+0660..U+0669 and the superscripts
\* U+00B2, U+00B3, U+00B9.
PyIsDigit(c) ==
    \/ (c >= 48 /\ c <= 57)
    \/ (c >= 1632 /\ c <= 1641)
    \/ c \in {178, 179, 185}

\* int(padded_text[i]): padded_text is a cdef str indexed by a Py_ssize_t,
\* so the item is a Py_UCS4 and int() of it is its digit value, defined for
\* every character str.isdigit() accepts (superscript one, two and three
\* are 1, 2 and 3).
PyInt(c) ==
    IF c >= 1632 THEN c - 1632
    ELSE IF c = 178 THEN 2
    ELSE IF c = 179 THEN 3
    ELSE IF c = 185 THEN 1
    ELSE c - 48

\* str.zfill(width) of a text without a sign prefix.
ZFill(text, width) ==
    IF Len(text) >= width THEN text ELSE Repeat(48, width - Len(text)) \o text

\* The checksum loop of is_valid_israeli_id_cython, positions i..8 (0-based).
ChecksumStepNoReduce(digit, i) == digit * ((i % 2) + 1)
ChecksumStep(digit, i) ==
    LET step == digit * ((i % 2) + 1) IN
    IF step > 9 THEN step - 9 ELSE step

RECURSIVE ChecksumTotal(_, _)
ChecksumTotal(padded_text, i) ==
    IF i >= 9 THEN 0
    ELSE ChecksumStep(PyInt(padded_text[i + 1]), i)
         + ChecksumTotal(padded_text, i + 1)

is_valid_israeli_id_cython(text) ==
    IF Len(text) > 9 THEN RetBool(FALSE)
    ELSE IF \E i \in 1..Len(text) : ~PyIsDigit(text[i]) THEN RetBool(FALSE)
    ELSE LET padded_text == ZFill(text, 9) IN
         RetBool(ChecksumTotal(padded_text, 0) % 10 = 0)

is_hex_cython(text) ==
    IF text = <<>> THEN RetBool(FALSE)
    ELSE LET text_bytes == EncodeAscii(text) IN
         IF text_bytes.kind = "raise" THEN text_bytes
         ELSE RetBool(\A i \in 1..Len(text_bytes.val) :
                          _is_hex_char(text_bytes.val[i]))

to_hex_cython(text) ==
    LET text_bytes == EncodeUtf8(text) IN
    IF text_bytes.kind = "raise" THEN text_bytes
    ELSE RetStr(_bytes_to_hex(text_bytes.val))

from_hex_cython(text) ==
    LET hex_bytes == EncodeAscii(text) IN
    IF hex_bytes.kind = "raise" THEN hex_bytes
    ELSE IF Len(hex_bytes.val) % 2 # 0 THEN Raise("ValueError")
    ELSE DecodeUtf8(_hex_to_bytes(hex_bytes.val))

(***************************************************************************)
(* Inputs of the text operations.                                          *)
(***************************************************************************)

\* '0' '1' '2' '5' '8' '9', 'a', superscript two, Arabic-Indic three
IdChars == {48, 49, 50, 53, 56, 57, 97, 178, 1635}

\* "000000018", "123456789", "12a456789"
IdFixtures ==
    { <<48, 48, 48, 48, 48, 48, 48, 49, 56>>,
      <<49, 50, 51, 52, 53, 54, 55, 56, 57>>,
      <<49, 50, 97, 52, 53, 54, 55, 56, 57>> }

\* Short texts, and the same texts behind six or seven zeros (lengths up to
\* nine and beyond).
IdInputs ==
    LET short == SeqsUpTo(IdChars, MaxIdLen) IN
    short \cup {Repeat(48, 6) \o s : s \in short}
          \cup {Repeat(48, 7) \o s : s \in short}
          \cup IdFixtures

\* '3' '9' 'a' 'c' 'f' 'A' 'F', and outside the hex digits 'g' and e-acute
HexChars == {51, 57, 97, 99, 102, 65, 70, 103, 233}

HexInputs == SeqsUpTo(HexChars, MaxHexLen)

\* NUL, 'a', DEL, then the first and last code points of the two-, three-
\* and four-byte encodings, and the surrogates' neighbourhood
PlainChars ==
    {0, 97, 127, 128, 233, 2047, 2048, 8364, 55295, 55296, 57343, 57344,
     65535, 65536, 1114111}

PlainInputs == SeqsUpTo(PlainChars, MaxTextLen)

(***************************************************************************)
(* The calls.                                                              *)
(***************************************************************************)
Init ==
    /\ pc = "idle"
    /\ op = "none"
    /\ arg = NoCall
    /\ ret = NoCall
    /\ arg_after = NoCall

CallIsValidIsraeliId ==
    /\ pc = "idle"
    /\ \E text \in IdInputs :
        /\ arg' = [text |-> text]
        /\ ret' = is_valid_israeli_id_cython(text)
    /\ arg_after' = arg'
    /\ op' = "is_valid_israeli_id"
    /\ pc' = "done"

CallIsHex ==
    /\ pc = "idle"
    /\ \E text \in HexInputs :
        /\ arg' = [text |-> text]
        /\ ret' = is_hex_cython(text)
    /\ arg_after' = arg'
    /\ op' = "is_hex"
    /\ pc' = "done"

CallToHex ==
    /\ pc = "idle"
    /\ \E text \in PlainInputs :
        /\ arg' = [text |-> text]
        /\ ret' = to_hex_cython(text)
    /\ arg_after' = arg'
    /\ op' = "to_hex"
    /\ pc' = "done"

CallFromHex ==
    /\ pc = "idle"
    /\ \E text \in HexInputs :
        /\ arg' = [text |-> text]
        /\ ret' = from_hex_cython(text)
    /\ arg_after' = arg'
    /\ op' = "from_hex"
    /\ pc' = "done"

\* The call has returned (or raised); its values are dropped.
Return ==
    /\ pc = "done"
    /\ pc' = "idle"
    /\ op' = "none"
    /\ arg' = NoCall
    /\ ret' = NoCall
    /\ arg_after' = NoCall

NextText ==
    \/ CallIsValidIsraeliId
    \/ CallIsHex
    \/ CallToHex
    \/ CallFromHex
    \/ Return

SpecText == Init /\ [][NextText]_vars

Done(o) == pc = "done" /\ op = o

(***************************************************************************)
(* crypto/_native.pyx: uuidv7                                              *)
(*                                                                         *)
(* A uint64_t is kept as three limbs, x = top * 2^48 + mid * 2^24 + low,   *)
(* top < 2^16 and mid, low < 2^24.                                         *)
(***************************************************************************)
U64(top, mid, low) == [top |-> top, mid |-> mid, low |-> low]

\* <uint8_t>(x >> n), n a multiple of 8 below 64
ShrToU8(x, n) ==
    IF n >= 48 THEN U8(x.top \div (2 ^ (n - 48)))
    ELSE IF n >= 24 THEN U8(x.mid \div (2 ^ (n - 24)))
    ELSE U8(x.low \div (2 ^ n))

\* _write_u48_be(out, x): out[0..5]
WriteU48LittleEndian(x) ==
    << ShrToU8(x, 0), ShrToU8(x, 8), ShrToU8(x, 16),
       ShrToU8(x, 24), ShrToU8(x, 32), ShrToU8(x, 40) >>
_write_u48_be(x) ==
    << ShrToU8(x, 40), ShrToU8(x, 32), ShrToU8(x, 24),
       ShrToU8(x, 16), ShrToU8(x, 8), ShrToU8(x, 0) >>

\* The 16 bytes b of uuidv7_cython; r is rnd (r[i] of the code is r[i + 1]).
Uuidv7Bytes(ts_ms, r) ==
    _write_u48_be(ts_ms)
        \o << U8(BitOr(BitAnd(r[1], 15), 112)),
              U8(BitOr(BitAnd(r[2], 63), 128)),
              r[3], r[4], r[5], r[6], r[7], r[8], r[9], r[10] >>

\* str(UUID(bytes=b)): 32 lowercase hex digits grouped 8-4-4-4-12 by '-'.
PyHexDigit(n) == IF n < 10 THEN 48 + n ELSE 87 + n

PyHex(b) ==
    [j \in 1..(2 * Len(b)) |->
        IF j % 2 = 1
        THEN PyHexDigit(b[(j + 1) \div 2] \div 16)
        ELSE PyHexDigit(b[j \div 2] % 16)]

UuidStr(b) ==
    LET hex == PyHex(b) IN
    SubSeq(hex, 1, 8) \o <<45>> \o SubSeq(hex, 9, 12) \o <<45>>
        \o SubSeq(hex, 13, 16) \o <<45>> \o SubSeq(hex, 17, 20) \o <<45>>
        \o SubSeq(hex, 21, 32)

uuidv7_cython(ts_ms, rnd) == RetStr(UuidStr(Uuidv7Bytes(ts_ms, rnd)))

\* a <= b on uint64_t
U64LessEq(a, b) ==
    \/ a.top < b.top
    \/ a.top = b.top /\ a.mid < b.mid
    \/ a.top = b.top /\ a.mid = b.mid /\ a.low <= b.low

\* The largest clock reading: time.time_ns() is a signed 64-bit count of
\* nanoseconds, so time.time_ns() // 1_000_000 is at most
\* (2^63 - 1) // 10^6 = 9223372036854 = 549755 * 2^24 + 13654774.
MaxClockMs == U64(0, 549755, 13654774)

\* Clock readings time.time_ns() // 1_000_000, as limbs: the epoch, the
\* limb boundaries, readings of the present decade and the largest ones.
LimbSamples == {0, 1, 106674, 549755, 13654774, 16777215}

ClockSamples ==
    {x \in {U64(0, m, l) : m \in LimbSamples, l \in LimbSamples} :
        U64LessEq(x, MaxClockMs)}

\* os.urandom(10): the first three bytes from ByteSamples, the other seven a
\* run of distinct bytes.
ByteSamples == {0, 63, 127, 128, 197, 255}

RndTail(b) == [i \in 1..7 |-> (b + 17 * i) % 256]

RndSamples ==
    {<<r0, r1, r2>> \o RndTail(b) :
        r0 \in ByteSamples, r1 \in ByteSamples, r2 \in ByteSamples,
        b \in {0, 240}}

CallUuidv7 ==
    /\ pc = "idle"
    /\ \E ts_ms \in ClockSamples, rnd \in RndSamples :
        /\ arg' = [ts_ms |-> ts_ms, rnd |-> rnd]
        /\ ret' = uuidv7_cython(ts_ms, rnd)
    /\ arg_after' = arg'
    /\ op' = "uuidv7"
    /\ pc' = "done"

(***************************************************************************)
(* crypto/_native.pyx: uuidv7_to_datetime                                  *)
(***************************************************************************)
\* A datetime returned: val is its instant in milliseconds since the epoch,
\* as limbs.  (The double division by 1000.0 is off by less than 16
\* microseconds below 2^48; it is exact to the millisecond.)
RetDatetime(ms) == [kind |-> "datetime", val |-> ms]

\* (result << 4) | nibble on a uint64_t
Shl4Or(x, nibble) ==
    U64((x.top * 16 + x.mid \div (2 ^ 20)) % (2 ^ 16),
        ((x.mid * 16) % (2 ^ 24)) + x.low \div (2 ^ 20),
        BitOr((x.low * 16) % (2 ^ 24), nibble))

\* _parse_hex_u48(hex_str): hex_str[i] of the code is hex_str[i + 1].
RECURSIVE ParseHexLoop(_, _, _)
ParseHexLoop(hex_str, i, result) ==
    IF i >= 12 THEN result
    ELSE ParseHexLoop(hex_str, i + 1,
                      Shl4Or(result, _hex_char_to_nibble(hex_str[i + 1])))

ParseHexU48SkipFirst(hex_str) == ParseHexLoop(Tail(hex_str), 0, U64(0, 0, 0))
_parse_hex_u48(hex_str) == ParseHexLoop(hex_str, 0, U64(0, 0, 0))

\* uuid.replace("-", "")
ReplaceDashes(uuid) == SelectSeq(uuid, LAMBDA c : c # 45)

\* The last millisecond datetime can hold: 9999-12-31 23:59:59.999 UTC,
\* 253402300799999 ms after the epoch.
MaxDatetimeMs == U64(0, 15103954, 2087935)

\* datetime.fromtimestamp(<double>timestamp_ms / 1000.0, tz=UTC)
FromTimestampMs(timestamp_ms) ==
    IF U64LessEq(timestamp_ms, MaxDatetimeMs) THEN RetDatetime(timestamp_ms)
    ELSE Raise("ValueError")

uuidv7_to_datetime_cython(uuid) ==
    IF uuid = <<>> THEN RetNone
    ELSE LET clean_hex == ReplaceDashes(uuid) IN
         IF Len(clean_hex) # 32 THEN Raise("ValueError")
         ELSE LET hex_bytes == EncodeAscii(clean_hex) IN
              IF hex_bytes.kind = "raise" THEN hex_bytes
              ELSE FromTimestampMs(_parse_hex_u48(hex_bytes.val))

\* Texts given to uuidv7_to_datetime: runs of one character ('0', 'f', 'F',
\* 'z', e acute) of a length around 32, and the 12 hex digits of a 48-bit
\* number followed by 20 more characters; each as it is, with the dashes of
\* the 8-4-4-4-12 form, and with dashes in front or at the end.  A text is
\* the caller's: its 48-bit number is any, the last millisecond a datetime
\* holds and the one after it included.
ParseChars == {48, 102, 70, 122, 233}

ParseLens == {1, 31, 32, 33, 36}

ParseStamps ==
    {U64(0, m, l) : m \in {0, 1, 106674, 16777215},
                    l \in {0, 1, 106674, 16777215}}
        \cup {MaxDatetimeMs, U64(0, 15103954, 2087936)}

ParseBodies ==
    {Repeat(c, n) : c \in ParseChars, n \in ParseLens}
        \cup {PyHex(_write_u48_be(t)) \o Repeat(c, 20) :
                 t \in ParseStamps, c \in {48, 122, 233}}

Dashed(hex) ==
    IF Len(hex) < 32 THEN hex
    ELSE SubSeq(hex, 1, 8) \o <<45>> \o SubSeq(hex, 9, 12) \o <<45>>
             \o SubSeq(hex, 13, 16) \o <<45>> \o SubSeq(hex, 17, 20) \o <<45>>
             \o SubSeq(hex, 21, Len(hex))

ParseInputs ==
    {<<>>, <<45>>, <<45, 45, 45, 45>>}
        \cup UNION {{h, Dashed(h), <<45>> \o h, h \o <<45, 45>>} : h \in ParseBodies}

CallUuidv7ToDatetime ==
    /\ pc = "idle"
    /\ \E uuid \in ParseInputs :
        /\ arg' = [uuid |-> uuid]
        /\ ret' = uuidv7_to_datetime_cython(uuid)
    /\ arg_after' = arg'
    /\ op' = "uuidv7_to_datetime"
    /\ pc' = "done"

\* uuidv7_to_datetime(uuidv7()): the identifier just generated is parsed;
\* ts_ms remembers the clock reading it was generated at.
CallUuidv7ToDatetimeOfGenerated ==
    /\ pc = "done"
    /\ op = "uuidv7"
    /\ arg' = [uuid |-> ret.val, ts_ms |-> arg.ts_ms]
    /\ ret' = uuidv7_to_datetime_cython(ret.val)
    /\ arg_after' = arg'
    /\ op' = "uuidv7_to_datetime"
    /\ pc' = "done"

\* uuidv7() is called a second time: the clock has not gone back.
\* prev_ts_ms and prev_uuid remember the first call.
U64Less(a, b) == U64LessEq(a, b) /\ a # b

\* The random bytes of two calls in a row: the smallest, the largest and
\* two mixed draws of RndSamples.
RndAgainSamples ==
    {<<0, 0, 0>> \o RndTail(0), <<255, 255, 255>> \o RndTail(240),
     <<0, 255, 128>> \o RndTail(0), <<197, 63, 127>> \o RndTail(240)}

CallUuidv7Again ==
    /\ pc = "done"
    /\ op = "uuidv7"
    /\ "prev_uuid" \notin DOMAIN arg
    /\ arg.rnd \in RndAgainSamples
    /\ \E ts_ms \in ClockSamples, rnd \in RndAgainSamples :
        /\ U64LessEq(arg.ts_ms, ts_ms)
        /\ arg' = [ts_ms |-> ts_ms, rnd |-> rnd,
                   prev_ts_ms |-> arg.ts_ms, prev_uuid |-> ret.val]
        /\ ret' = uuidv7_cython(ts_ms, rnd)
    /\ arg_after' = arg'
    /\ op' = "uuidv7"
    /\ pc' = "done"

(***************************************************************************)
(* crypto/_native.pyx: to_stable_uuid                                      *)
(***************************************************************************)
MaxParts == 2

\* sep.join(parts)
RECURSIVE PyJoin(_, _)
PyJoin(sep, parts) ==
    IF parts = <<>> THEN <<>>
    ELSE IF Len(parts) = 1 THEN parts[1]
    ELSE parts[1] \o sep \o PyJoin(sep, Tail(parts))

\* hashlib.md5(data).digest(): the 16 bytes of the digest, for the byte
\* strings the modelled parts join to.
Md5Digest(data) ==
    CASE data = <<97>> ->
          <<12, 193, 117, 185, 192, 241, 182, 168, 49, 195, 153, 226, 105, 119, 38, 97>>
      [] data = <<98>> ->
          <<146, 235, 95, 254, 230, 174, 47, 236, 58, 215, 28, 119, 117, 49, 87, 143>>
      [] data = <<97, 124, 97>> ->
          <<97, 189, 125, 220, 36, 209, 159, 27, 107, 242, 1, 116, 23, 218, 95, 170>>
      [] data = <<97, 124, 98>> ->
          <<208, 114, 98, 65, 2, 6, 118, 177, 74, 166, 41, 140, 230, 161, 139, 33>>
      [] data = <<98, 124, 97>> ->
          <<0, 95, 67, 222, 25, 174, 213, 235, 254, 188, 135, 224, 207, 113, 232, 147>>
      [] data = <<98, 124, 98>> ->
          <<91, 147, 93, 196, 69, 58, 227, 165, 71, 196, 157, 72, 164, 66, 163, 20>>
      [] data = <<97, 124, 97, 124, 97>> ->
          <<18, 90, 183, 159, 184, 148, 94, 5, 88, 204, 234, 82, 221, 35, 206, 198>>
      [] data = <<97, 124, 97, 124, 98>> ->
          <<168, 50, 122, 237, 103, 85, 240, 211, 4, 135, 120, 71, 231, 53, 218, 173>>
      [] data = <<97, 124, 98, 124, 97>> ->
          <<181, 122, 228, 250, 5, 216, 109, 71, 238, 100, 185, 161, 11, 26, 172, 49>>
      [] data = <<97, 124, 98, 124, 98>> ->
          <<188, 33, 19, 215, 26, 78, 116, 214, 239, 170, 240, 163, 232, 86, 128, 124>>
      [] data = <<98, 124, 97, 124, 97>> ->
          <<71, 26, 47, 96, 212, 239, 104, 53, 43, 239, 58, 43, 228, 226, 62, 196>>
      [] data = <<98, 124, 97, 124, 98>> ->
          <<246, 248, 119, 230, 213, 25, 27, 86, 176, 246, 116, 105, 127, 11, 118, 44>>
      [] data = <<98, 124, 98, 124, 97>> ->
          <<215, 221, 128, 202, 22, 82, 14, 93, 211, 223, 92, 210, 179, 82, 225, 39>>
      [] data = <<98, 124, 98, 124, 98>> ->
          <<133, 51, 181, 147, 168, 167, 230, 176, 158, 141, 169, 138, 155, 17, 218, 187>>
      [] data = <<195, 169>> ->
          <<102, 221, 205, 151, 207, 222, 171, 178, 246, 251, 138, 153, 155, 75, 199, 111>>
      [] data = <<>> ->
          <<212, 29, 140, 217, 143, 0, 178, 4, 233, 128, 9, 152, 236, 248, 66, 126>>

\* str.upper() of the text of a UUID
StrUpperIdentity(text) == text
StrUpper(text) ==
    [i \in 1..Len(text) |->
        IF text[i] >= 97 /\ text[i] <= 122 THEN text[i] - 32 ELSE text[i]]

to_stable_uuid_cython(parts) ==
    IF parts = <<>> THEN RetStr(<<>>)
    ELSE LET joined == PyJoin(<<124>>, parts)
             joined_bytes == EncodeUtf8(joined)
         IN  IF joined_bytes.kind = "raise" THEN joined_bytes
             ELSE LET hash_bytes == Md5Digest(joined_bytes.val)
                      hex_obj == _bytes_to_hex(hash_bytes)
                      uuid_bytes_obj == _hex_to_bytes(SubSeq(hex_obj, 1, 32))
                  IN  RetStr(StrUpper(UuidStr(uuid_bytes_obj)))

\* Lists of the parts "a" and "b", and the one-part lists of "a|b", of
\* e acute, of the empty str and of a lone surrogate.
PartPool == {<<97>>, <<98>>}

PartsInputs ==
    SeqsUpTo(PartPool, MaxParts)
        \cup {<< <<97, 124, 98>> >>, << <<233>> >>, << <<>> >>, << <<55296>> >>}

CallToStableUuid ==
    /\ pc = "idle"
    /\ \E parts \in PartsInputs :
        /\ arg' = [parts |-> parts]
        /\ ret' = to_stable_uuid_cython(parts)
    /\ arg_after' = arg'
    /\ op' = "to_stable_uuid"
    /\ pc' = "done"

NextUuid ==
    \/ CallUuidv7
    \/ CallUuidv7Again
    \/ CallUuidv7ToDatetime
    \/ CallUuidv7ToDatetimeOfGenerated
    \/ CallToStableUuid
    \/ Return

SpecUuid == Init /\ [][NextUuid]_vars

(***************************************************************************)
(* Claims about uuidv7 (specification SpecUuid).                           *)
(***************************************************************************)
RECURSIVE WithoutDashes(_)
WithoutDashes(text) ==
    IF text = <<>> THEN <<>>
    ELSE IF Head(text) = 45 THEN WithoutDashes(Tail(text))
    ELSE <<Head(text)>> \o WithoutDashes(Tail(text))

\* C1: in the identifier uuidv7 returns, bits 48..51 are the version 0111 (hex
\* digit 12, dashes ignored, is '7') and bits 64..65 are the variant 10 (hex
\* digit 16 is one of 8, 9, a, b); the low nibble of byte 6 and the bytes
\* 9..15 are random bytes as they were drawn.
C1_VersionAndVariant ==
    Done("uuidv7") =>
        LET hex == WithoutDashes(ret.val)
            r == arg.rnd
        IN  /\ Len(hex) = 32
            /\ hex[12 + 1] = 55
            /\ hex[16 + 1] \in {56, 57, 97, 98}
            /\ hex[13 + 1] = PyHexDigit(r[1] % 16)
            /\ SubSeq(hex, 19, 32) = PyHex(SubSeq(r, 4, 10))

(***************************************************************************)
(* objects/_native.pyx: change_keys_case                                   *)
(*                                                                         *)
(* A Python object is a pair <<type, content>>.  The content of a dict     *)
(* is the sequence of its <<key, value>> items in insertion order, of a    *)
(* list or a tuple the sequence of its elements, of a set their set.       *)
(* A range stands for the iterables that are no dict, list, tuple or set.  *)
(***************************************************************************)
MaxKeys == 3
MaxNestKeys == 2
MaxSeqLen == 2
MaxInnerKeys == 2
MaxInnerLen == 1

VInt(n) == <<"int", n>>
VStr(s) == <<"str", s>>
VNone == <<"none", "None">>
VRange(n) == <<"range", n>>
VDict(items) == <<"dict", items>>
VList(elems) == <<"list", elems>>
VTuple(elems) == <<"tuple", elems>>
VSet(elems) == <<"set", elems>>

\* bool(obj), as the operator `or` tests it
Truthy(obj) ==
    IF obj[1] = "int" THEN obj[2] # 0
    ELSE IF obj[1] = "range" THEN obj[2] > 0
    ELSE IF obj[1] = "none" THEN FALSE
    ELSE IF obj[1] = "set" THEN obj[2] # {}
    ELSE Len(obj[2]) > 0

\* a or b
PyOrSecondWins(a, b) == b
PyOr(a, b) == IF Truthy(a) THEN a ELSE b

\* str(key) of a key that is no str: the decimal digits of an int
RECURSIVE DecimalDigits(_)
DecimalDigits(n) ==
    IF n < 10 THEN <<48 + n>> ELSE DecimalDigits(n \div 10) \o <<48 + (n % 10)>>

PyStr(key) ==
    IF key[1] = "str" THEN key
    ELSE IF key[1] = "int"
         THEN VStr(IF key[2] < 0 THEN <<45>> \o DecimalDigits(-key[2])
                   ELSE DecimalDigits(key[2]))
    ELSE VStr(<<78, 111, 110, 101>>)

\* k.startswith("_") and k.lstrip("_")
StartsWithUnderscore(s) == Len(s) > 0 /\ s[1] = 95

RECURSIVE LStripUnderscore(_)
LStripUnderscore(s) ==
    IF StartsWithUnderscore(s) THEN LStripUnderscore(Tail(s)) ELSE s

\* method(key): the caller's key function.  The model knows three: the
\* identity, str.upper, and one that drops leading underscores.
Methods == {"identity", "upper", "lstrip"}

ApplyMethod(method, s) ==
    IF method = "upper"
    THEN [i \in 1..Len(s) |-> IF s[i] >= 97 /\ s[i] <= 122 THEN s[i] - 32 ELSE s[i]]
    ELSE IF method = "lstrip" THEN LStripUnderscore(s)
    ELSE s

\* dict operations on the item sequence
DictHas(d, key) == \E i \in 1..Len(d) : d[i][1] = key

DictIndex(d, key) == CHOOSE i \in 1..Len(d) : d[i][1] = key

DictGet(d, key) == d[DictIndex(d, key)][2]

DictSetFirstWins(d, key, value) ==
    IF DictHas(d, key) THEN d ELSE Append(d, <<key, value>>)
DictSet(d, key, value) ==
    IF DictHas(d, key)
    THEN [d EXCEPT ![DictIndex(d, key)] = <<key, value>>]
    ELSE Append(d, <<key, value>>)

DictKeys(d) == [i \in 1..Len(d) |-> d[i][1]]

\* is_iterable_except_str_like_cython(obj)
IsIterableInclStr(obj) ==
    obj[1] \in {"str", "dict", "list", "tuple", "set", "range"}
is_iterable_except_str_like_cython(obj) ==
    IF obj[1] \in {"str", "bytes", "bytearray", "memoryview"} THEN FALSE
    ELSE IF obj[1] \in {"dict", "list", "tuple", "set"} THEN TRUE
    ELSE obj[1] = "range"

\* One turn of the merge loop of change_keys_case on the dict d, for key k.
MergeStepIntoPrefixed(d, k) ==
    IF k[1] = "str" /\ StartsWithUnderscore(k[2])
    THEN LET new_k == VStr(LStripUnderscore(k[2])) IN
         IF DictHas(d, new_k)
         THEN DictSet(d, k, PyOr(DictGet(d, new_k), DictGet(d, k)))
         ELSE d
    ELSE d
MergeStep(d, k) ==
    IF k[1] = "str" /\ StartsWithUnderscore(k[2])
    THEN LET new_k == VStr(LStripUnderscore(k[2])) IN
         IF DictHas(d, new_k)
         THEN DictSet(d, new_k, PyOr(DictGet(d, new_k), DictGet(d, k)))
         ELSE d
    ELSE d

\* The merge loop over list(d.keys()), from the n-th key on.
RECURSIVE MergeLoop(_, _, _)
MergeLoop(d, keys, n) ==
    IF n > Len(keys) THEN d
    ELSE MergeLoop(MergeStep(d, keys[n]), keys, n + 1)

MergePass(d) == MergeLoop(d, DictKeys(d), 1)

\* The container built from tmp at the end of the list/tuple/set branch.
RebuildAsList(kind, tmp) == VList(tmp)
Rebuild(kind, tmp) ==
    IF kind = "set" THEN VSet({tmp[i] : i \in 1..Len(tmp)})
    ELSE IF kind = "tuple" THEN VTuple(tmp)
    ELSE VList(tmp)

\* PySequence_Fast(input_obj): the elements as a list; those of a set in
\* some order.
RECURSIVE SetAsSeq(_)
SetAsSeq(S) ==
    IF S = {} THEN <<>>
    ELSE LET e == CHOOSE x \in S : TRUE IN <<e>> \o SetAsSeq(S \ {e})

SequenceFast(input_obj) ==
    IF input_obj[1] = "set" THEN SetAsSeq(input_obj[2]) ELSE input_obj[2]

\* change_keys_case(input_obj, method, deep): the object returned.
RECURSIVE change_keys_case(_, _, _)
RECURSIVE BuildOut(_, _, _, _, _)
BuildOut(d, n, out, method, deep) ==
    IF n > Len(d) THEN out
    ELSE LET key == PyStr(d[n][1])
             value == d[n][2]
             new_key == VStr(ApplyMethod(method, key[2]))
             new_value ==
                 IF deep /\ is_iterable_except_str_like_cython(value)
                 THEN change_keys_case(value, method, deep)
                 ELSE value
         IN  BuildOut(d, n + 1, DictSet(out, new_key, new_value), method, deep)

change_keys_case(input_obj, method, deep) ==
    IF input_obj[1] \in {"str", "bytes", "bytearray", "memoryview"}
    THEN VStr(ApplyMethod(method, input_obj[2]))
    ELSE IF input_obj[1] = "dict"
    THEN VDict(BuildOut(MergePass(input_obj[2]), 1, <<>>, method, deep))
    ELSE IF input_obj[1] \in {"list", "tuple", "set"}
    THEN LET seq_fast == SequenceFast(input_obj)
             tmp == [i \in 1..Len(seq_fast) |->
                        IF deep /\ is_iterable_except_str_like_cython(seq_fast[i])
                        THEN change_keys_case(seq_fast[i], method, deep)
                        ELSE seq_fast[i]]
         IN  Rebuild(input_obj[1], tmp)
    ELSE input_obj

\* The caller's object after change_keys_case(input_obj, method, deep): the
\* merge loop writes into d = <dict>input_obj itself, and so do the recursive
\* calls into the dicts the object holds.
RECURSIVE InputAfterCall(_, _)
InputAfterCall(input_obj, deep) ==
    IF input_obj[1] = "dict"
    THEN LET d == MergePass(input_obj[2]) IN
         VDict([i \in 1..Len(d) |->
                   IF deep /\ is_iterable_except_str_like_cython(d[i][2])
                   THEN <<d[i][1], InputAfterCall(d[i][2], deep)>>
                   ELSE d[i]])
    ELSE IF input_obj[1] \in {"list", "tuple"}
    THEN <<input_obj[1],
             [i \in 1..Len(input_obj[2]) |->
                 IF deep /\ is_iterable_except_str_like_cython(input_obj[2][i])
                 THEN InputAfterCall(input_obj[2][i], deep)
                 ELSE input_obj[2][i]]>>
    ELSE input_obj

(***************************************************************************)
(* Inputs of change_keys_case.                                             *)
(***************************************************************************)
\* Injective sequences over S of length at most n (keys in insertion order).
OrderedKeys(S, n) ==
    {ks \in SeqsUpTo(S, n) : \A i, j \in 1..Len(ks) : i # j => ks[i] # ks[j]}

DictsOver(K, V, n) ==
    {VDict([i \in 1..Len(ks) |-> <<ks[i], vs[i]>>]) :
        <<ks, vs>> \in {p \in OrderedKeys(K, n) \X SeqsUpTo(V, n) :
                           Len(p[1]) = Len(p[2])}}

ListsOver(V, n) == {VList(es) : es \in SeqsUpTo(V, n)}

TuplesOver(V, n) == {VTuple(es) : es \in SeqsUpTo(V, n)}

SetsOver(V, n) == {VSet(es) : es \in {T \in SUBSET V : Cardinality(T) <= n}}

\* "a", "_a", "__a", "b"
KeyA == VStr(<<97>>)
KeyUA == VStr(<<95, 97>>)
KeyUUA == VStr(<<95, 95, 97>>)
KeyB == VStr(<<98>>)

KeyPool == {KeyA, KeyUA, KeyUUA, KeyB, VInt(1)}

\* the str "_x"
StrUX == VStr(<<95, 120>>)

Leaves == {VInt(0), VInt(1), StrUX, VNone}

FlatDicts == DictsOver(KeyPool, {VInt(0), VInt(1), VInt(5)}, MaxKeys)

InnerDicts == DictsOver({KeyA, KeyUA}, {VInt(0), VInt(1)}, MaxInnerKeys)

Level1 ==
    InnerDicts
        \cup ListsOver({VInt(1), StrUX}, MaxInnerLen)
        \cup TuplesOver({VInt(1), StrUX}, MaxInnerLen)
        \cup SetsOver({VInt(1), StrUX}, MaxInnerLen)
        \cup {VRange(0), VRange(2)}

MergingDicts == {d \in InnerDicts : Len(d[2]) = 2}

Level2 ==
    ListsOver(MergingDicts, 1)
        \cup TuplesOver(MergingDicts, 1)
        \cup SetsOver(TuplesOver({StrUX}, 1), 1)
        \cup ListsOver(ListsOver(MergingDicts, 1), 1)

NestPool == Leaves \cup Level1 \cup Level2

SmallPool ==
    { VInt(0), StrUX, VList(<<VInt(1)>>), VTuple(<<StrUX>>), VSet({VInt(1)}),
      VDict(<< <<KeyUA, VInt(1)>>, <<KeyA, VInt(0)>> >>) }

KeysInputs ==
    FlatDicts
        \cup DictsOver({KeyA, KeyUA, KeyB}, NestPool, 1)
        \cup DictsOver({KeyA, KeyUA, KeyB}, SmallPool, MaxNestKeys)
        \cup ListsOver(NestPool, 1)
        \cup TuplesOver(NestPool, 1)
        \cup ListsOver(SmallPool, MaxSeqLen)
        \cup TuplesOver(SmallPool, MaxSeqLen)
        \cup SetsOver({VInt(0), StrUX, VTuple(<<StrUX>>), VTuple(<<VInt(1), VTuple(<<>>)>>)},
                      MaxSeqLen)
        \cup {StrUX, VInt(5), VNone, VRange(2)}

CallChangeKeysCase ==
    /\ pc = "idle"
    /\ \E input_obj \in KeysInputs, method \in Methods, deep \in BOOLEAN :
        /\ arg' = [input_obj |-> input_obj, method |-> method, deep |-> deep]
        /\ ret' = RetObj(change_keys_case(input_obj, method, deep))
        /\ arg_after' = [input_obj |-> InputAfterCall(input_obj, deep),
                         method |-> method, deep |-> deep]
    /\ op' = "change_keys_case"
    /\ pc' = "done"

NextKeys ==
    \/ CallChangeKeysCase
    \/ Return

SpecKeys == Init /\ [][NextKeys]_vars

(***************************************************************************)
(* objects/_native.pyx: recursive_sort_keys_cython                         *)
(***************************************************************************)
MaxSortKeys == 3
MaxSortNestKeys == 2
MaxSortSeqLen == 2

\* An exception leaving a recursive call, carried like a result.
TypeErrorRaised == <<"raise", "TypeError">>

\* s < t of two str: by code points, a proper prefix first
RECURSIVE StrLess(_, _)
StrLess(s, t) ==
    IF t = <<>> THEN FALSE
    ELSE IF s = <<>> THEN TRUE
    ELSE IF s[1] # t[1] THEN s[1] < t[1]
    ELSE StrLess(Tail(s), Tail(t))

\* a < b is defined between two str and between two int; between a str and
\* an int, and for None, it raises TypeError.
Comparable(a, b) == a[1] = b[1] /\ a[1] \in {"str", "int"}

PyLess(a, b) == IF a[1] = "str" THEN StrLess(a[2], b[2]) ELSE a[2] < b[2]

\* sorted(input_dict.items()): the items are (key, value) tuples whose keys
\* differ, so two tuples are ordered by their keys alone.  Sorting raises if
\* two of the keys cannot be compared.
SortedRaises(items) ==
    \E i, j \in 1..Len(items) : i < j /\ ~Comparable(items[i][1], items[j][1])

RECURSIVE InsertItem(_, _)
InsertItem(sorted_items, item) ==
    IF sorted_items = <<>> THEN <<item>>
    ELSE IF PyLess(item[1], sorted_items[1][1]) THEN <<item>> \o sorted_items
    ELSE <<sorted_items[1]>> \o InsertItem(Tail(sorted_items), item)

RECURSIVE SortedReversing(_)
SortedReversing(items) ==
    IF items = <<>> THEN <<>>
    ELSE Append(SortedReversing(Tail(items)), Head(items))
RECURSIVE Sorted(_)
Sorted(items) ==
    IF items = <<>> THEN <<>>
    ELSE InsertItem(Sorted(Tail(items)), Head(items))

\* recursive_sort_keys_cython(input_dict): the dict returned, or the
\* exception raised.
RECURSIVE recursive_sort_keys_cython(_)

\* for item in value: ... new_list.append(...); the result is new_list
RECURSIVE SortInList(_, _, _)
SortInList(value, i, new_list) ==
    IF i > Len(value) THEN VList(new_list)
    ELSE LET item == value[i]
             new_item == IF item[1] = "dict"
                         THEN recursive_sort_keys_cython(item)
                         ELSE item
         IN  IF new_item[1] = "raise" THEN new_item
             ELSE SortInList(value, i + 1, Append(new_list, new_item))

\* for key, value in sorted_items: result[key] = ...
RECURSIVE SortLoop(_, _, _)
SortLoop(sorted_items, n, result) ==
    IF n > Len(sorted_items) THEN VDict(result)
    ELSE LET key == sorted_items[n][1]
             value == sorted_items[n][2]
             new_value ==
                 IF value[1] = "dict" THEN recursive_sort_keys_cython(value)
                 ELSE IF value[1] \in {"list", "tuple"}
                 THEN SortInList(value[2], 1, <<>>)
                 ELSE value
         IN  IF new_value[1] = "raise" THEN new_value
             ELSE SortLoop(sorted_items, n + 1, DictSet(result, key, new_value))

recursive_sort_keys_cython(input_dict) ==
    IF SortedRaises(input_dict[2]) THEN TypeErrorRaised
    ELSE SortLoop(Sorted(input_dict[2]), 1, <<>>)

(***************************************************************************)
(* Inputs of recursive_sort_keys_cython.                                   *)
(***************************************************************************)
\* "ab", "B"
KeyAB == VStr(<<97, 98>>)
KeyUpperB == VStr(<<66>>)

SortKeyPool == {KeyA, KeyAB, KeyB, KeyUpperB, VInt(1), VInt(2)}

SortFlatDicts == DictsOver(SortKeyPool, {VInt(0)}, MaxSortKeys)

\* {"b": 0, "a": 1}, {"a": 0, "b": 1} and {"b": 0, 1: 1}
UnsortedDict == VDict(<< <<KeyB, VInt(0)>>, <<KeyA, VInt(1)>> >>)
SortedDict == VDict(<< <<KeyA, VInt(0)>>, <<KeyB, VInt(1)>> >>)
MixedDict == VDict(<< <<KeyB, VInt(0)>>, <<VInt(1), VInt(1)>> >>)

SortElems == {UnsortedDict, SortedDict, VInt(1), StrUX}

SortValues ==
    {VInt(0), StrUX, VNone, UnsortedDict, SortedDict, MixedDict,
     VDict(<< <<KeyB, UnsortedDict>>, <<KeyA, VTuple(<<UnsortedDict>>)>> >>),
     VSet({VInt(1), StrUX}),
     VList(<<VList(<<UnsortedDict>>)>>),
     VList(<<VTuple(<<UnsortedDict, VInt(1)>>)>>),
     VTuple(<<VList(<<VList(<<UnsortedDict>>)>>)>>),
     VList(<<MixedDict>>)}
        \cup ListsOver(SortElems, MaxSortSeqLen)
        \cup TuplesOver(SortElems, MaxSortSeqLen)

SortSmallValues ==
    {VInt(0), StrUX, UnsortedDict, MixedDict, VTuple(<<UnsortedDict>>),
     VList(<<UnsortedDict, VInt(1)>>), VList(<<VList(<<UnsortedDict>>)>>),
     VSet({VInt(1)})}

SortInputs ==
    SortFlatDicts
        \cup DictsOver({KeyB, KeyA}, SortValues, 1)
        \cup DictsOver({KeyB, KeyA}, SortSmallValues, MaxSortNestKeys)

CallRecursiveSortKeys ==
    /\ pc = "idle"
    /\ \E input_dict \in SortInputs :
        /\ arg' = [input_dict |-> input_dict]
        /\ ret' = (LET result == recursive_sort_keys_cython(input_dict) IN
                   IF result[1] = "raise" THEN Raise(result[2]) ELSE RetObj(result))
        /\ arg_after' = [input_dict |-> input_dict]
    /\ op' = "recursive_sort_keys"
    /\ pc' = "done"

NextSort ==
    \/ CallRecursiveSortKeys
    \/ Return

SpecSort == Init /\ [][NextSort]_vars

Next ==
    \/ CallIsValidIsraeliId
    \/ CallIsHex
    \/ CallToHex
    \/ CallFromHex
    \/ CallUuidv7
    \/ CallUuidv7Again
    \/ CallUuidv7ToDatetime
    \/ CallUuidv7ToDatetimeOfGenerated
    \/ CallToStableUuid
    \/ CallChangeKeysCase
    \/ CallRecursiveSortKeys
    \/ Return

Spec == Init /\ [][Next]_vars

(***************************************************************************)
(* Claims about the text operations (specification SpecText).              *)
(***************************************************************************)

\* The hex digits [0-9a-fA-F] as the specification names them.
IsHexDigit(c) == c \in (48..57) \cup (65..70) \cup (97..102)

\* The ASCII decimal digits '0'..'9'.
IsAsciiDigit(c) == c \in 48..57

\* A character that has a decimal value (a decimal digit of any script).
IsDecimalDigit(c) == c \in (48..57) \cup (1632..1641)

ToUpperAscii(c) == IF c >= 97 /\ c <= 122 THEN c - 32 ELSE c

Upper(text) == [i \in 1..Len(text) |-> ToUpperAscii(text[i])]

\* C2: from_hex fails with an error for every text of odd length and for
\* every text that holds a character outside [0-9a-fA-F]; it never returns a
\* decoded text for such an input.
C2_FromHexRejectsMalformed ==
    Done("from_hex") =>
        ( ( \/ Len(arg.text) % 2 = 1
            \/ \E i \in 1..Len(arg.text) : ~IsHexDigit(arg.text[i]) )
          => ret.kind = "raise" )

\* C3: is_valid_israeli_id returns False for the empty string.
C3_EmptyIdIsInvalid ==
    (Done("is_valid_israeli_id") /\ arg.text = <<>>) =>
        (ret.kind = "bool" /\ ret.val = FALSE)

\* C4: is_valid_israeli_id never raises: it returns a boolean for every text,
\* and False whenever the text is longer than 9 characters or holds a
\* character that is not a decimal digit (a character the Unicode digit test
\* accepts but that has no decimal value included).
C4_IdNeverRaises ==
    Done("is_valid_israeli_id") =>
        /\ ret.kind = "bool"
        /\ ( ( \/ Len(arg.text) > 9
               \/ \E i \in 1..Len(arg.text) : ~IsDecimalDigit(arg.text[i]) )
             => ret.val = FALSE )

\* The checksum as the specification states it: the sum over the positions
\* i = 0..8 of f(digit_i * (1 + i mod 2)), f(s) = s - 9 if s > 9, s otherwise,
\* over the text left-padded with '0' to 9 digits.
SpecDigit(text, i) ==
    LET pad == 9 - Len(text) IN
    IF i < pad THEN 0 ELSE text[i - pad + 1] - 48

SpecReduce(s) == IF s > 9 THEN s - 9 ELSE s

RECURSIVE SpecSum(_, _)
SpecSum(text, n) ==
    IF n = 0 THEN 0
    ELSE SpecSum(text, n - 1)
         + SpecReduce(SpecDigit(text, n - 1) * (1 + ((n - 1) % 2)))

\* C5: for every text of 1 to 9 decimal digits is_valid_israeli_id returns
\* True iff the weighted digit sum of the zero-padded text is divisible by 10;
\* "000000018" is valid and "123456789" is not.
C5_ChecksumRule ==
    Done("is_valid_israeli_id") =>
        /\ ( ( /\ Len(arg.text) >= 1
               /\ Len(arg.text) <= 9
               /\ \A i \in 1..Len(arg.text) : IsAsciiDigit(arg.text[i]) )
             => ( /\ ret.kind = "bool"
                  /\ ret.val = (SpecSum(arg.text, 9) % 10 = 0) ) )
        /\ (arg.text = <<48, 48, 48, 48, 48, 48, 48, 49, 56>>
             => (ret.kind = "bool" /\ ret.val = TRUE))
        /\ (arg.text = <<49, 50, 51, 52, 53, 54, 55, 56, 57>>
             => (ret.kind = "bool" /\ ret.val = FALSE))

\* "59" is valid: the 5 in a doubled position is reduced (10 - 9), 1 + 9 = 10.
C5_Witness ==
    /\ Done("is_valid_israeli_id")
    /\ arg.text = <<53, 57>>
    /\ ret.kind = "bool"
    /\ ret.val = TRUE

\* C6: hex round trip: decoding the hex text of a buffer gives the buffer
\* back, also when the hex text is upper-cased first; the hex text has two
\* lowercase hex characters per byte.
C6_HexRoundTrip ==
    (Done("to_hex") /\ ret.kind = "str") =>
        LET B == Utf8Bytes(arg.text)
            lower == from_hex_cython(ret.val)
            upper == from_hex_cython(Upper(ret.val))
        IN  /\ Len(ret.val) = 2 * Len(B)
            /\ \A i \in 1..Len(ret.val) :
                   ret.val[i] \in (48..57) \cup (97..102)
            /\ _hex_to_bytes(ret.val) = B
            /\ _hex_to_bytes(Upper(ret.val)) = B
            /\ lower.kind = "str"
            /\ lower.val = arg.text
            /\ upper.kind = "str"
            /\ upper.val = arg.text

\* A two-character text whose hex text holds a letter digit (e-acute, "c3a9").
C6_Witness ==
    /\ Done("to_hex")
    /\ ret.kind = "str"
    /\ Len(arg.text) = 2
    /\ \E i \in 1..Len(ret.val) : ret.val[i] >= 97
    /\ \E i \in 1..Len(arg.text) : arg.text[i] >= 128

\* C7: is_hex has no failure mode: it returns a boolean for every text, True
\* iff the text is non-empty and every character is in [0-9a-fA-F]; False for
\* a text that holds a non-ASCII character.
C7_IsHexTotal ==
    Done("is_hex") =>
        /\ ret.kind = "bool"
        /\ ret.val = ( /\ arg.text # <<>>
                       /\ \A i \in 1..Len(arg.text) : IsHexDigit(arg.text[i]) )

(***************************************************************************)
(* Claims about change_keys_case (specification SpecKeys).                 *)
(***************************************************************************)
IsPrefixedKey(key) == key[1] = "str" /\ StartsWithUnderscore(key[2])

\* The candidate key of a prefixed key: the key without its leading '_'.
Candidate(key) == VStr(LStripUnderscore(key[2]))

\* c is the candidate of some prefixed key of d.
IsMergeTarget(d, c) ==
    \E i \in 1..Len(d) : IsPrefixedKey(d[i][1]) /\ Candidate(d[i][1]) = c

\* The values of the prefixed keys of d whose candidate is c, in key order.
RECURSIVE PrefixedValues(_, _)
PrefixedValues(d, c) ==
    IF d = <<>> THEN <<>>
    ELSE (IF IsPrefixedKey(d[1][1]) /\ Candidate(d[1][1]) = c
          THEN <<d[1][2]>> ELSE <<>>)
         \o PrefixedValues(Tail(d), c)

\* The first truthy value of a non-empty sequence, its last value if none is.
RECURSIVE FirstTruthyOrLast(_)
FirstTruthyOrLast(values) ==
    IF Len(values) = 1 \/ Truthy(Head(values)) THEN Head(values)
    ELSE FirstTruthyOrLast(Tail(values))

IsContainer(obj) == obj[1] \in {"dict", "list", "tuple", "set"}

\* Some mapping of obj that the call reaches holds a prefixed key together
\* with its candidate.
RECURSIVE HasMergePair(_, _)
HasMergePair(obj, deep) ==
    IF obj[1] = "dict"
    THEN \/ \E i \in 1..Len(obj[2]) : IsMergeTarget(obj[2], obj[2][i][1])
         \/ deep /\ \E i \in 1..Len(obj[2]) : HasMergePair(obj[2][i][2], deep)
    ELSE IF obj[1] \in {"list", "tuple"}
    THEN deep /\ \E i \in 1..Len(obj[2]) : HasMergePair(obj[2][i], deep)
    ELSE FALSE

\* A value as the caller sees it after the call that recursed into it.
AfterRecursion(value, deep) ==
    IF deep /\ IsContainer(value) THEN InputAfterCall(value, deep) ELSE value

\* C8 as stated: change_keys_case on a mapping leaves the caller's input
\* mapping unchanged: after the call every key has the value it had before.
C8_InputUnchanged ==
    (Done("change_keys_case") /\ arg.input_obj[1] = "dict") =>
        arg_after.input_obj = arg.input_obj

\* C8 as amended: the merge pass writes into the caller's input mapping
\* itself.  After the call the mapping has the same keys in the same order; a
\* key that is no candidate of a prefixed key keeps its value (a container
\* value recursed into is merged in place the same way); a candidate key holds
\* the merged value; an input without a prefixed key and its candidate in any
\* mapping reached is unchanged.
C8_MergeWritesIntoInput ==
    (Done("change_keys_case") /\ arg.input_obj[1] = "dict") =>
        LET d == arg.input_obj[2]
            e == arg_after.input_obj[2]
        IN  /\ arg_after.input_obj[1] = "dict"
            /\ DictKeys(e) = DictKeys(d)
            /\ \A i \in 1..Len(d) :
                 IF IsMergeTarget(d, d[i][1])
                 THEN e[i][2] = AfterRecursion(
                          FirstTruthyOrLast(<<d[i][2]>> \o PrefixedValues(d, d[i][1])),
                          arg.deep)
                 ELSE e[i][2] = AfterRecursion(d[i][2], arg.deep)
            /\ (~HasMergePair(arg.input_obj, arg.deep)
                  => arg_after.input_obj = arg.input_obj)

\* {"_a": 1, "a": 0}: after the call the caller's mapping holds "a" -> 1.
C8_Witness ==
    /\ Done("change_keys_case")
    /\ arg.input_obj = VDict(<< <<KeyUA, VInt(1)>>, <<KeyA, VInt(0)>> >>)
    /\ arg_after.input_obj = VDict(<< <<KeyUA, VInt(1)>>, <<KeyA, VInt(1)>> >>)

\* C9 as stated: for every key k that starts with '_', with c the key k
\* without its leading '_': if c is a key of the mapping, the value c carries
\* when the output is built is the old value of c if that is truthy, else the
\* value of k; if c is no key, nothing is merged.  {"_a": 1, "a": 0} with the
\* identity key function yields "a" -> 1.
C9_PrefixMergePerKey ==
    (Done("change_keys_case") /\ arg.input_obj[1] = "dict") =>
        LET d == arg.input_obj[2]
            e == arg_after.input_obj[2]
        IN  /\ \A i \in 1..Len(d) :
                 IsPrefixedKey(d[i][1]) =>
                     LET c == Candidate(d[i][1]) IN
                     IF DictHas(d, c)
                     THEN DictGet(e, c) = AfterRecursion(
                              IF Truthy(DictGet(d, c)) THEN DictGet(d, c) ELSE d[i][2],
                              arg.deep)
                     ELSE ~DictHas(e, c)
            /\ ( ( /\ arg.input_obj = VDict(<< <<KeyUA, VInt(1)>>, <<KeyA, VInt(0)>> >>)
                   /\ arg.method = "identity" )
                 => ( /\ ret.val[1] = "dict"
                      /\ DictHas(ret.val[2], KeyA)
                      /\ DictGet(ret.val[2], KeyA) = VInt(1) ) )

\* C9 as amended: if c is a key of the mapping, the value c carries when the
\* output is built is the first truthy value among the old value of c and the
\* values of the prefixed keys whose candidate is c, in key order, and the
\* last of these values if none is truthy; if c is no key, nothing is merged.
\* {"_a": 1, "a": 0} with the identity key function yields "a" -> 1.
C9_PrefixMergeFirstTruthy ==
    (Done("change_keys_case") /\ arg.input_obj[1] = "dict") =>
        LET d == arg.input_obj[2]
            e == arg_after.input_obj[2]
        IN  /\ \A i \in 1..Len(d) :
                 IsPrefixedKey(d[i][1]) =>
                     LET c == Candidate(d[i][1]) IN
                     IF DictHas(d, c)
                     THEN DictGet(e, c) = AfterRecursion(
                              FirstTruthyOrLast(<<DictGet(d, c)>> \o PrefixedValues(d, c)),
                              arg.deep)
                     ELSE ~DictHas(e, c) /\ Len(e) = Len(d)
            /\ ( ( /\ arg.input_obj = VDict(<< <<KeyUA, VInt(1)>>, <<KeyA, VInt(0)>> >>)
                   /\ arg.method = "identity" )
                 => ( /\ ret.val[1] = "dict"
                      /\ DictHas(ret.val[2], KeyA)
                      /\ DictGet(ret.val[2], KeyA) = VInt(1) ) )

\* {"_a": 0, "__a": 5, "a": 0}: "a" carries 5, the value of the second
\* prefixed key, and the identity key function yields "a" -> 5.
C9_Witness ==
    /\ Done("change_keys_case")
    /\ arg.input_obj =
           VDict(<< <<KeyUA, VInt(0)>>, <<KeyUUA, VInt(5)>>, <<KeyA, VInt(0)>> >>)
    /\ arg.method = "identity"
    /\ DictGet(ret.val[2], KeyA) = VInt(5)

\* out has the container kind of inp, and so has every container the call
\* recursed into; lists and tuples keep their length and order.
RECURSIVE SameKinds(_, _, _, _)
SameKinds(inp, out, method, deep) ==
    IF inp[1] \in {"list", "tuple"}
    THEN /\ out[1] = inp[1]
         /\ Len(out[2]) = Len(inp[2])
         /\ \A i \in 1..Len(inp[2]) :
              IF deep /\ IsContainer(inp[2][i])
              THEN SameKinds(inp[2][i], out[2][i], method, deep)
              ELSE out[2][i] = inp[2][i]
    ELSE IF inp[1] = "set"
    THEN /\ out[1] = "set"
         /\ \A o \in out[2] : \E x \in inp[2] :
              IF deep /\ IsContainer(x)
              THEN SameKinds(x, o, method, deep)
              ELSE o = x
         /\ \A x \in inp[2] : \E o \in out[2] :
              IF deep /\ IsContainer(x)
              THEN SameKinds(x, o, method, deep)
              ELSE o = x
    ELSE IF inp[1] = "dict"
    THEN /\ out[1] = "dict"
         /\ \A j \in 1..Len(out[2]) : \E i \in 1..Len(inp[2]) :
              /\ out[2][j][1] = VStr(ApplyMethod(method, PyStr(inp[2][i][1])[2]))
              /\ IF deep /\ IsContainer(inp[2][i][2])
                 THEN SameKinds(inp[2][i][2], out[2][j][2], method, deep)
                 ELSE out[2][j][2] = inp[2][i][2]
    ELSE out = inp

\* C10: change_keys_case preserves the container kind of its input and of
\* every nested container it recurses into: a mapping yields a mapping, a
\* list a list, a tuple a tuple, a set a set; lists and tuples keep their
\* number of elements and their order.
C10_ContainerKindPreserved ==
    (Done("change_keys_case") /\ IsContainer(arg.input_obj)) =>
        /\ ret.kind = "obj"
        /\ ret.val[1] = arg.input_obj[1]
        /\ SameKinds(arg_after.input_obj, ret.val, arg.method, arg.deep)

\* A list of a tuple and a set, transformed deeply.
C10_Witness ==
    /\ Done("change_keys_case")
    /\ arg.deep
    /\ arg.input_obj = VList(<<VTuple(<<StrUX>>), VSet({VInt(1)})>>)
    /\ ret.val = VList(<<VTuple(<<StrUX>>), VSet({VInt(1)})>>)

\* keyFn(str(key)): the rewritten form of a key.
NewKey(key, method) == VStr(ApplyMethod(method, PyStr(key)[2]))

\* out is inp with keyFn applied to the keys of every mapping the call
\* reaches: every key of a mapping has its rewritten key in the output and
\* the output has no other key; a value that is a container is rewritten the
\* same way if deep, and every other value is the value itself.
RECURSIVE Rewritten(_, _, _, _)
Rewritten(inp, out, method, deep) ==
    IF inp[1] = "dict"
    THEN /\ out[1] = "dict"
         /\ {out[2][j][1] : j \in 1..Len(out[2])}
              = {NewKey(inp[2][i][1], method) : i \in 1..Len(inp[2])}
         /\ \A j \in 1..Len(out[2]) : \E i \in 1..Len(inp[2]) :
              /\ out[2][j][1] = NewKey(inp[2][i][1], method)
              /\ IF deep /\ IsContainer(inp[2][i][2])
                 THEN Rewritten(inp[2][i][2], out[2][j][2], method, deep)
                 ELSE out[2][j][2] = inp[2][i][2]
    ELSE IF inp[1] \in {"list", "tuple"}
    THEN /\ out[1] = inp[1]
         /\ Len(out[2]) = Len(inp[2])
         /\ \A i \in 1..Len(inp[2]) :
              IF deep /\ IsContainer(inp[2][i])
              THEN Rewritten(inp[2][i], out[2][i], method, deep)
              ELSE out[2][i] = inp[2][i]
    ELSE IF inp[1] = "set"
    THEN /\ out[1] = "set"
         /\ \A o \in out[2] : \E x \in inp[2] :
              IF deep /\ IsContainer(x) THEN Rewritten(x, o, method, deep) ELSE o = x
         /\ \A x \in inp[2] : \E o \in out[2] :
              IF deep /\ IsContainer(x) THEN Rewritten(x, o, method, deep) ELSE o = x
    ELSE out = inp

\* C11: with deep = true, change_keys_case applies keyFn to the keys of every
\* mapping reachable from the input through mappings, lists, tuples and sets
\* and leaves every value that is no container (a str among them) unchanged;
\* with deep = false only the keys of the top-level mapping are rewritten and
\* every value is passed through as the mapping holds it after the merge pass
\* (a list, tuple or set given at the top is returned with its elements
\* untouched).
C11_DeepRewritesEveryMapping ==
    (Done("change_keys_case") /\ IsContainer(arg.input_obj)) =>
        /\ ret.kind = "obj"
        /\ Rewritten(arg_after.input_obj, ret.val, arg.method, arg.deep)
        /\ (~arg.deep /\ arg.input_obj[1] # "dict") => ret.val = arg.input_obj
        /\ (~arg.deep /\ arg.input_obj[1] = "dict") =>
               \A j \in 1..Len(ret.val[2]) :
                   \E i \in 1..Len(arg_after.input_obj[2]) :
                       ret.val[2][j][2] = arg_after.input_obj[2][i][2]

\* {"a": "_x", "b": {"_a": 1, "a": 0}} with str.upper, deep: the keys of both
\* mappings are upper-cased and the str value "_x" is left alone.
C11_Witness ==
    /\ Done("change_keys_case")
    /\ arg.deep
    /\ arg.method = "upper"
    /\ arg.input_obj =
           VDict(<< <<KeyA, StrUX>>,
                    <<KeyB, VDict(<< <<KeyUA, VInt(1)>>, <<KeyA, VInt(0)>> >>)>> >>)
    /\ ret.val =
           VDict(<< <<VStr(<<65>>), StrUX>>,
                    <<VStr(<<66>>),
                      VDict(<< <<VStr(<<95, 65>>), VInt(1)>>,
                               <<VStr(<<65>>), VInt(1)>> >>)>> >>)

\* The index of the last key of d, in iteration order, that keyFn rewrites
\* to new_key.
LastColliding(d, new_key, method) ==
    CHOOSE i \in 1..Len(d) :
        /\ NewKey(d[i][1], method) = new_key
        /\ \A k \in (i + 1)..Len(d) : NewKey(d[k][1], method) # new_key

\* C19: when keyFn maps several keys of one mapping to the same rewritten
\* key, the output of change_keys_case holds exactly one entry for that
\* rewritten key, and its value is the merged (and, if deep, recursed) value
\* of the colliding key that comes last in the mapping's iteration order; the
\* output has no entry for any other key.
C19_LastWriteWins ==
    (Done("change_keys_case") /\ arg.input_obj[1] = "dict") =>
        LET d == arg_after.input_obj[2]
            out == ret.val[2]
        IN  /\ ret.val[1] = "dict"
            /\ \A i \in 1..Len(d) :
                 Cardinality({j \in 1..Len(out) :
                                 out[j][1] = NewKey(d[i][1], arg.method)}) = 1
            /\ \A j \in 1..Len(out) :
                 /\ \E i \in 1..Len(d) : out[j][1] = NewKey(d[i][1], arg.method)
                 /\ LET value == d[LastColliding(d, out[j][1], arg.method)][2] IN
                    IF arg.deep /\ IsContainer(value)
                    THEN Rewritten(value, out[j][2], arg.method, arg.deep)
                    ELSE out[j][2] = value

\* {"a": 1, "_a": 5} with a keyFn that drops leading underscores: both keys
\* are rewritten to "a"; the output is {"a": 5}, the value of the last key.
C19_Witness ==
    /\ Done("change_keys_case")
    /\ arg.method = "lstrip"
    /\ arg.input_obj = VDict(<< <<KeyA, VInt(1)>>, <<KeyUA, VInt(5)>> >>)
    /\ ret.val = VDict(<< <<KeyA, VInt(5)>> >>)

(***************************************************************************)
(* Claims about recursive_sort_keys_cython (specification SpecSort).       *)
(***************************************************************************)
\* The keys of the item sequence d are in ascending order.
AscendingKeys(d) ==
    \A i \in 1..(Len(d) - 1) :
        Comparable(d[i][1], d[i + 1][1]) /\ PyLess(d[i][1], d[i + 1][1])

\* Every mapping in obj, reached through mapping values and through list and
\* tuple elements at any depth, has its keys in ascending order.
RECURSIVE SortedEverywhere(_)
SortedEverywhere(obj) ==
    IF obj[1] = "dict"
    THEN /\ AscendingKeys(obj[2])
         /\ \A i \in 1..Len(obj[2]) : SortedEverywhere(obj[2][i][2])
    ELSE IF obj[1] \in {"list", "tuple"}
    THEN \A i \in 1..Len(obj[2]) : SortedEverywhere(obj[2][i])
    ELSE TRUE

\* C12: in the result of recursive_sort_keys_cython every mapping at every
\* level has its keys in ascending order: the top-level mapping, every
\* mapping nested as a mapping value, and every mapping contained in a nested
\* sequence value at any depth of sequence nesting.
C12_KeysAscendingEverywhere ==
    (Done("recursive_sort_keys") /\ ret.kind = "obj") => SortedEverywhere(ret.val)

\* C13: recursive_sort_keys_cython is idempotent: sorting the result of a
\* call again returns the same mapping, with the same key order at every
\* level and the same values.
C13_SortIdempotent ==
    (Done("recursive_sort_keys") /\ ret.kind = "obj") =>
        recursive_sort_keys_cython(ret.val) = ret.val

\* {"b": ({"b": 0, "a": 1},), "a": 0}: the call reorders both mappings, and
\* sorting its result again changes nothing.
C13_Witness ==
    /\ Done("recursive_sort_keys")
    /\ arg.input_dict =
           VDict(<< <<KeyB, VTuple(<<UnsortedDict>>)>>, <<KeyA, VInt(0)>> >>)
    /\ ret.kind = "obj"
    /\ ret.val # arg.input_dict
    /\ ret.val[2][1][1] = KeyA
    /\ ret.val[2][2][2][2][1] = VDict(<< <<KeyA, VInt(1)>>, <<KeyB, VInt(0)>> >>)
    /\ recursive_sort_keys_cython(ret.val) = ret.val

\* out is the sequence inp as data: the same container kind, the same
\* length, the same elements in the same order, a mapping element replaced by
\* a mapping with the same keys.
SequenceKept(inp, out) ==
    /\ out[1] = inp[1]
    /\ Len(out[2]) = Len(inp[2])
    /\ \A k \in 1..Len(inp[2]) :
         IF inp[2][k][1] = "dict"
         THEN /\ out[2][k][1] = "dict"
              /\ {out[2][k][2][j][1] : j \in 1..Len(out[2][k][2])}
                   = {inp[2][k][2][j][1] : j \in 1..Len(inp[2][k][2])}
         ELSE out[2][k] = inp[2][k]

\* C18: recursive_sort_keys_cython preserves every sequence that is a value
\* of the mapping: the output sequence has the container kind of the input
\* (a list stays a list, a tuple stays a tuple), the same length and the same
\* element order; only mapping elements are replaced by their key-sorted
\* versions.
C18_SequenceKindPreserved ==
    (Done("recursive_sort_keys") /\ ret.kind = "obj") =>
        \A i \in 1..Len(arg.input_dict[2]) :
            LET key == arg.input_dict[2][i][1]
                value == arg.input_dict[2][i][2]
            IN  value[1] \in {"list", "tuple"} =>
                    /\ DictHas(ret.val[2], key)
                    /\ SequenceKept(value, DictGet(ret.val[2], key))

(***************************************************************************)
(* Claims about uuidv7_to_datetime (specification SpecUuid).               *)
(***************************************************************************)
\* C14: uuidv7_to_datetime returns None for the empty string; for every
\* non-empty text it fails with an error if and only if the text with all
\* dashes removed does not have exactly 32 characters, and otherwise it
\* returns a timestamp.
C14_ParseFailsIffLength ==
    Done("uuidv7_to_datetime") =>
        IF arg.uuid = <<>> THEN ret.kind = "none"
        ELSE /\ (ret.kind = "raise") <=> (Len(WithoutDashes(arg.uuid)) # 32)
             /\ (ret.kind # "raise") => (ret.kind = "datetime")

\* The 48-bit number the first 12 hex digits of a text denote, as limbs.
RECURSIVE HexValue(_)
HexValue(digits) ==
    IF digits = <<>> THEN 0
    ELSE 16 * HexValue(SubSeq(digits, 1, Len(digits) - 1))
             + (LET c == digits[Len(digits)] IN
                IF c >= 97 THEN c - 87 ELSE IF c >= 65 THEN c - 55 ELSE c - 48)

First48Bits(text) ==
    LET hex == WithoutDashes(text) IN
    U64(0, HexValue(SubSeq(hex, 1, 6)), HexValue(SubSeq(hex, 7, 12)))

\* C15: for every clock reading T (0 <= T < 2^48: the clock gives at most
\* 9223372036854 ms) and every random input, uuidv7_to_datetime of the
\* identifier uuidv7 produced at clock T returns a timestamp within the small
\* bounded delta of T (here: the very millisecond T), and the 48-bit value of
\* the first 12 hex digits of the identifier is T exactly.
C15_TimestampInverse ==
    (Done("uuidv7_to_datetime") /\ "ts_ms" \in DOMAIN arg) =>
        /\ arg.ts_ms.top = 0
        /\ First48Bits(arg.uuid) = arg.ts_ms
        /\ ret.kind = "datetime"
        /\ ret.val = arg.ts_ms

\* The identifier generated at the largest clock reading, 9223372036854 ms
\* (0x08637bd05af6), is parsed back to that millisecond.
C15_Witness ==
    /\ Done("uuidv7_to_datetime")
    /\ "ts_ms" \in DOMAIN arg
    /\ arg.ts_ms = MaxClockMs
    /\ SubSeq(arg.uuid, 1, 13)
           = <<48, 56, 54, 51, 55, 98, 100, 48, 45, 53, 97, 102, 54>>
    /\ ret = RetDatetime(MaxClockMs)

\* C16: for two identifiers generated at clock readings T1 < T2
\* (millisecond readings, at least 1 ms apart) with arbitrary random bytes,
\* the text of the first is lexicographically smaller than the text of the
\* second.
C16_TimeOrdering ==
    ( /\ Done("uuidv7")
      /\ "prev_uuid" \in DOMAIN arg
      /\ U64Less(arg.prev_ts_ms, arg.ts_ms) ) =>
        StrLess(arg.prev_uuid, ret.val)

\* Clock 0xffffff with the largest random bytes, then clock 0x1000000 with
\* the smallest: 00000fff-ffff-7fbf-... comes before 00000100-0000-7080-....
C16_Witness ==
    /\ Done("uuidv7")
    /\ "prev_uuid" \in DOMAIN arg
    /\ arg.prev_ts_ms = U64(0, 0, 16777215)
    /\ arg.prev_uuid = uuidv7_cython(U64(0, 0, 16777215),
                                     <<255, 255, 255>> \o RndTail(240)).val
    /\ arg.ts_ms = U64(0, 1, 0)
    /\ arg.rnd = <<0, 0, 0>> \o RndTail(0)
    /\ SubSeq(arg.prev_uuid, 1, 13) = <<48, 48, 48, 48, 48, 48, 102, 102, 45, 102, 102, 102, 102>>
    /\ SubSeq(ret.val, 1, 13) = <<48, 48, 48, 48, 48, 49, 48, 48, 45, 48, 48, 48, 48>>

(***************************************************************************)
(* Claims about to_stable_uuid (specification SpecUuid).                   *)
(***************************************************************************)
\* An uppercase hex digit.
UpperHexDigit(n) == IF n < 10 THEN 48 + n ELSE 55 + n

\* The text of 16 bytes: 32 uppercase hex digits, two per byte in their
\* order, in groups of 8, 4, 4, 4 and 12 separated by '-'.
IsDashedUpperHexOf(text, bytes) ==
    /\ Len(bytes) = 16
    /\ Len(text) = 36
    /\ \A i \in {9, 14, 19, 24} : text[i] = 45
    /\ \A k \in 1..16 :
         LET dashes == IF k <= 4 THEN 0 ELSE IF k <= 6 THEN 1 ELSE IF k <= 8 THEN 2
                       ELSE IF k <= 10 THEN 3 ELSE 4
             at == 2 * k - 1 + dashes
         IN  /\ text[at] = UpperHexDigit(bytes[k] \div 16)
             /\ text[at + 1] = UpperHexDigit(bytes[k] % 16)

\* C17: to_stable_uuid returns the empty string for an empty list of parts
\* and, for a non-empty list, the uppercase dashed 8-4-4-4-12 hex text of the
\* 16 digest bytes of the hash of the UTF-8 bytes of the parts joined with
\* "|" (the hex encoding and decoding in between leave the digest bytes as
\* they are); equal lists give equal texts, and ["a", "b"] and ["b", "a"] are
\* hashed from different joined texts.
C17_StableIdentifier ==
    (Done("to_stable_uuid") /\ ret.kind # "raise") =>
        /\ ret.kind = "str"
        /\ (arg.parts = <<>>) <=> (ret.val = <<>>)
        /\ arg.parts # <<>> =>
             LET digest == Md5Digest(Utf8Bytes(PyJoin(<<124>>, arg.parts))) IN
             /\ IsDashedUpperHexOf(ret.val, digest)
             /\ _hex_to_bytes(_bytes_to_hex(digest)) = digest
        /\ ret = to_stable_uuid_cython(arg.parts)
        /\ arg.parts = << <<97>>, <<98>> >> =>
             /\ PyJoin(<<124>>, arg.parts) = <<97, 124, 98>>
             /\ PyJoin(<<124>>, << <<98>>, <<97>> >>) = <<98, 124, 97>>
             /\ ret # to_stable_uuid_cython(<< <<98>>, <<97>> >>)

\* ["a", "b"]: md5("a|b") is d0726241020676b14aa6298ce6a18b21, and the
\* result is D0726241-0206-76B1-4AA6-298CE6A18B21.
C17_Witness ==
    /\ Done("to_stable_uuid")
    /\ arg.parts = << <<97>>, <<98>> >>
    /\ ret.kind = "str"
    /\ ret.val = <<68, 48, 55, 50, 54, 50, 52, 49, 45, 48, 50, 48, 54, 45,
                   55, 54, 66, 49, 45, 52, 65, 65, 54, 45,
                   50, 57, 56, 67, 69, 54, 65, 49, 56, 66, 50, 49>>

====
